---- MODULE Spec2Model ----
(***************************************************************************)
(* Name normalization and phonetic matching engine of the Arabic Name     *)
(* Normalizer mediator (JavaScript) and of its Java twin                   *)
(* ArabicNameNormalizer.                                                   *)
(*                                                                         *)
(* Strings are sequences of UTF-16 code units (naturals).  A JavaScript    *)
(* number produced by jaroWinkler is modelled by the exact rational it     *)
(* denotes, a pair <<numerator, denominator>> in lowest terms.             *)
(***************************************************************************)
EXTENDS Integers, Sequences, FiniteSets, TLC

VARIABLES op, arg1, arg2, res, names, tables, lastIndex

vars == <<op, arg1, arg2, res, names, tables, lastIndex>>

(***************************************************************************)
(* Bounds of the explored input space.                                     *)
(***************************************************************************)
MaxJWLen == 5
MaxSoundexLen == 7
MaxLettersLen == 2
MaxNameTokens == 3
MaxEnglishTokens == 3
MaxCompareTokens == 2
MaxBatch == 2
MaxPrefixTokens == 3
MaxPatientNames == 2

(***************************************************************************)
(* Values outside the string domain.                                       *)
(***************************************************************************)
\* null / undefined passed where a string is expected
Null == <<-1>>
\* the call raised (TypeError in JavaScript)
Threw == <<-2>>
\* the call never returns
Diverged == <<-3>>
\* no result yet
NoResult == <<-4>>
\* a name normalization that raised instead of returning its record
Thrown == [error |-> "TypeError"]

(***************************************************************************)
(* Shared state of the module: the four lookup objects, bound by const but *)
(* mutable as objects, and the lastIndex of the global pattern             *)
(* ARABIC_DIACRITICS.  Every function reads the tables through `tables`.   *)
(***************************************************************************)
AL == <<1575, 1604>>
ABD == <<1593, 1576, 1583>>
ABDAL == <<1593, 1576, 1583, 1575, 1604>>

\* <<from, to>> in declaration order, the order of Object.entries
ARABIC_NORMALIZATIONS_Declared ==
  << <<1570, 1575>>, <<1571, 1575>>, <<1573, 1575>>, <<1649, 1575>>,
     <<1577, 1607>>, <<1609, 1610>>, <<1572, 1608>>, <<1574, 1610>> >>

\* <<prefix, replacement>> in declaration order
PREFIXES_Declared ==
  << <<AL, <<>>>>,
     <<<<1593, 1576, 1583, 32, 1575, 1604>>, ABDAL>>,
     <<ABDAL, ABDAL>>,
     <<<<1575, 1576, 1608, 32>>, <<1575, 1576, 1608>>>>,
     <<<<1571, 1576, 1608, 32>>, <<1575, 1576, 1608>>>>,
     <<<<1575, 1576, 1606, 32>>, <<1575, 1576, 1606>>>>,
     <<<<1576, 1606, 32>>, <<1576, 1606>>>>,
     <<<<1575, 1605, 32>>, <<1575, 1605>>>>,
     <<<<1571, 1605, 32>>, <<1575, 1605>>>> >>

ENGLISH_PREFIXES_Declared ==
  << <<<<97, 108, 45>>, <<>>>>,
     <<<<97, 108, 32>>, <<>>>>,
     <<<<101, 108, 45>>, <<>>>>,
     <<<<101, 108, 32>>, <<>>>>,
     <<<<97, 98, 100, 45>>, <<97, 98, 100>>>>,
     <<<<97, 98, 100, 32>>, <<97, 98, 100>>>>,
     <<<<97, 98, 100, 101, 108, 45>>, <<97, 98, 100, 101, 108>>>>,
     <<<<97, 98, 100, 101, 108, 32>>, <<97, 98, 100, 101, 108>>>>,
     <<<<97, 98, 100, 117, 108, 45>>, <<97, 98, 100, 117, 108>>>>,
     <<<<97, 98, 100, 117, 108, 32>>, <<97, 98, 100, 117, 108>>>>,
     <<<<97, 98, 117, 45>>, <<97, 98, 117>>>>,
     <<<<97, 98, 117, 32>>, <<97, 98, 117>>>>,
     <<<<105, 98, 110, 45>>, <<105, 98, 110>>>>,
     <<<<105, 98, 110, 32>>, <<105, 98, 110>>>>,
     <<<<98, 105, 110, 45>>, <<98, 105, 110>>>>,
     <<<<98, 105, 110, 32>>, <<98, 105, 110>>>> >>

\* the group digit '1'..'9' declared for c, or 0 when c is not a key
ARABIC_SOUNDEX_Declared(c) ==
  CASE c \in {1576, 1601, 1608} -> 49
    [] c \in {1580, 1586, 1587, 1588, 1589, 1590, 1592} -> 50
    [] c \in {1583, 1584, 1578, 1591, 1579} -> 51
    [] c = 1604 -> 52
    [] c \in {1605, 1606} -> 53
    [] c = 1585 -> 54
    [] c \in {1602, 1603, 1594, 1582} -> 55
    [] c \in {1607, 1581, 1593, 1569, 1571} -> 56
    [] c = 1610 -> 57
    [] OTHER -> 0

ARABIC_SOUNDEX_Keys == {c \in 1569..1610 : ARABIC_SOUNDEX_Declared(c) # 0}

\* the four objects as the module's top level leaves them
TablesAtLoad ==
  [ARABIC_NORMALIZATIONS |-> ARABIC_NORMALIZATIONS_Declared,
   PREFIXES |-> PREFIXES_Declared,
   ENGLISH_PREFIXES |-> ENGLISH_PREFIXES_Declared,
   ARABIC_SOUNDEX |-> [c \in ARABIC_SOUNDEX_Keys |-> ARABIC_SOUNDEX_Declared(c)]]

\* the shared state once the module is loaded
ModuleLoaded ==
  /\ tables = TablesAtLoad
  /\ lastIndex = 0

RECURSIVE SeqsUpTo(_, _)
SeqsUpTo(S, n) ==
  IF n = 0 THEN {<<>>}
  ELSE LET shorter == SeqsUpTo(S, n - 1)
       IN  shorter \cup {Append(s, c) : s \in shorter, c \in S}

Max2(a, b) == IF a >= b THEN a ELSE b
Min2(a, b) == IF a <= b THEN a ELSE b

(***************************************************************************)
(* Exact arithmetic on the values of JavaScript number expressions.        *)
(***************************************************************************)
RECURSIVE GCD(_, _)
GCD(a, b) == IF b = 0 THEN a ELSE GCD(b, a % b)

Abs(n) == IF n < 0 THEN -n ELSE n

Rat(n, d) ==
  LET g == GCD(Abs(n), Abs(d))
      s == IF d < 0 THEN -1 ELSE 1
  IN  <<(s * n) \div g, (s * d) \div g>>

RInt(n) == <<n, 1>>
RAdd(a, b) == Rat(a[1] * b[2] + b[1] * a[2], a[2] * b[2])
RSub(a, b) == Rat(a[1] * b[2] - b[1] * a[2], a[2] * b[2])
RMul(a, b) == Rat(a[1] * b[1], a[2] * b[2])
RDiv(a, b) == Rat(a[1] * b[2], a[2] * b[1])
RLe(a, b) == a[1] * b[2] <= b[1] * a[2]
RLt(a, b) == a[1] * b[2] < b[1] * a[2]

Zero == RInt(0)
One == RInt(1)

(***************************************************************************)
(* JavaScript truthiness of a string-or-null value: !x                     *)
(***************************************************************************)
IsNullOnly(x) == x = Null

IsFalsy(x) == x = Null \/ x = <<>>

(***************************************************************************)
(* jaroWinkler                                                             *)
(***************************************************************************)
\* Math.floor(Math.max(len1, len2) / 2) - 1   (may be -1)
matchWindowOfLeft(len1, len2) == (len1 \div 2) - 1

matchWindow(len1, len2) == (Max2(len1, len2) \div 2) - 1

\* Java: Math.max(0, Math.max(len1, len2) / 2 - 1)
J_matchWindow(len1, len2) == Max2(0, (Max2(len1, len2) \div 2) - 1)

\* inner loop "for (j = start; j < end; j++)": the first j in [j, end) that
\* is unmatched in s2 and carries s1[i]; -1 when the loop runs out
\* the inner loop without the "s2Matches[j]" test: a character of s2 can be
\* assigned twice
RECURSIVE FirstMatchReusing(_, _, _, _, _, _)
FirstMatchReusing(s1, s2, s2Matches, i, j, end) ==
  IF j >= end THEN -1
  ELSE IF s1[i + 1] # s2[j + 1]
       THEN FirstMatchReusing(s1, s2, s2Matches, i, j + 1, end)
       ELSE j

RECURSIVE FirstMatch(_, _, _, _, _, _)
FirstMatch(s1, s2, s2Matches, i, j, end) ==
  IF j >= end THEN -1
  ELSE IF s2Matches[j + 1] \/ s1[i + 1] # s2[j + 1]
       THEN FirstMatch(s1, s2, s2Matches, i, j + 1, end)
       ELSE j

\* outer loop "for (i = 0; i < len1; i++)" of the match search, from i on
RECURSIVE FindMatches(_, _, _, _, _, _)
FindMatches(s1, s2, w, i, s1Matches, s2Matches) ==
  IF i >= Len(s1) THEN [s1Matches |-> s1Matches, s2Matches |-> s2Matches]
  ELSE LET start == Max2(0, i - w)
           end == Min2(Len(s2), i + w + 1)
           j == FirstMatch(s1, s2, s2Matches, i, start, end)
       IN  IF j = -1
           THEN FindMatches(s1, s2, w, i + 1, s1Matches, s2Matches)
           ELSE FindMatches(s1, s2, w, i + 1,
                            [s1Matches EXCEPT ![i + 1] = TRUE],
                            [s2Matches EXCEPT ![j + 1] = TRUE])

CountTrue(flags) == Cardinality({x \in DOMAIN flags : flags[x]})

\* "while (!s2Matches[k]) k++": an index past the end reads undefined, which
\* is falsy, so the scan would never stop: -1
RECURSIVE SkipUnmatched(_, _)
SkipUnmatched(s2Matches, k) ==
  IF k >= Len(s2Matches) THEN -1
  ELSE IF s2Matches[k + 1] THEN k
       ELSE SkipUnmatched(s2Matches, k + 1)

\* the loop without the comparison of the paired characters: transpositions
\* keeps its initial value
CountTranspositionsNone(s1, s2, s1Matches, s2Matches, i, k, t) == t

\* transposition loop from (i, k) on with t counted so far; -1 = never returns
RECURSIVE CountTranspositions(_, _, _, _, _, _, _)
CountTranspositions(s1, s2, s1Matches, s2Matches, i, k, t) ==
  IF i >= Len(s1) THEN t
  ELSE IF ~s1Matches[i + 1]
       THEN CountTranspositions(s1, s2, s1Matches, s2Matches, i + 1, k, t)
       ELSE LET k2 == SkipUnmatched(s2Matches, k)
            IN  IF k2 = -1 THEN -1
                ELSE CountTranspositions(s1, s2, s1Matches, s2Matches,
                       i + 1, k2 + 1,
                       IF s1[i + 1] # s2[k2 + 1] THEN t + 1 ELSE t)

\* (matches/len1 + matches/len2 + (matches - transpositions/2)/matches) / 3
JaroWholeTranspositions(matches, transpositions, len1, len2) ==
  RDiv(RAdd(RAdd(RDiv(RInt(matches), RInt(len1)),
                 RDiv(RInt(matches), RInt(len2))),
            RDiv(RSub(RInt(matches), RInt(transpositions)),
                 RInt(matches))),
       RInt(3))

Jaro(matches, transpositions, len1, len2) ==
  RDiv(RAdd(RAdd(RDiv(RInt(matches), RInt(len1)),
                 RDiv(RInt(matches), RInt(len2))),
            RDiv(RSub(RInt(matches), RDiv(RInt(transpositions), RInt(2))),
                 RInt(matches))),
       RInt(3))

\* "for (i = 0; i < Math.min(4, len1, len2); i++) if (s1[i] === s2[i])
\*  prefix++; else break;"
RECURSIVE CommonPrefix(_, _, _)
CommonPrefix(s1, s2, i) ==
  IF i < Min2(4, Min2(Len(s1), Len(s2))) /\ s1[i + 1] = s2[i + 1]
  THEN CommonPrefix(s1, s2, i + 1)
  ELSE i

\* jaro + prefix * 0.1 * (1 - jaro)
WinklerNoScaling(jaro, prefix) ==
  RAdd(jaro, RMul(RInt(prefix), Rat(1, 10)))

Winkler(jaro, prefix) ==
  RAdd(jaro, RMul(RMul(RInt(prefix), Rat(1, 10)), RSub(One, jaro)))

\* the body of jaroWinkler after its base cases, for a given match window
JaroWinklerBody(s1, s2, w) ==
  LET len1 == Len(s1)
      len2 == Len(s2)
      found == FindMatches(s1, s2, w, 0,
                           [x \in 1..len1 |-> FALSE],
                           [x \in 1..len2 |-> FALSE])
      matches == CountTrue(found.s1Matches)
      transpositions == CountTranspositions(s1, s2, found.s1Matches,
                                            found.s2Matches, 0, 0, 0)
  IN  IF matches = 0 THEN Zero
      ELSE IF transpositions = -1 THEN Diverged
      ELSE Winkler(Jaro(matches, transpositions, len1, len2),
                   CommonPrefix(s1, s2, 0))

\* the base cases tested in the other order
jaroWinklerEmptyFirst(s1, s2) ==
  IF IsFalsy(s1) \/ IsFalsy(s2) THEN Zero
  ELSE IF s1 = s2 THEN One
  ELSE JaroWinklerBody(s1, s2, matchWindow(Len(s1), Len(s2)))

\* the empty base case answering with the other constant
jaroWinklerEmptyOne(s1, s2) ==
  IF s1 = s2 THEN One
  ELSE IF IsFalsy(s1) \/ IsFalsy(s2) THEN One
  ELSE JaroWinklerBody(s1, s2, matchWindow(Len(s1), Len(s2)))

jaroWinkler(s1, s2) ==
  IF s1 = s2 THEN One
  ELSE IF IsFalsy(s1) \/ IsFalsy(s2) THEN Zero
  ELSE JaroWinklerBody(s1, s2, matchWindow(Len(s1), Len(s2)))

J_jaroWinkler(s1, s2) ==
  IF s1 = Null \/ s2 = Null THEN Zero
  ELSE IF s1 = s2 THEN One
  ELSE IF s1 = <<>> \/ s2 = <<>> THEN Zero
  ELSE JaroWinklerBody(s1, s2, J_matchWindow(Len(s1), Len(s2)))

(***************************************************************************)
(* Inputs of the similarity scorer: every string of at most MaxJWLen       *)
(* letters over a two-letter alphabet, and the textbook pair.            *)
(***************************************************************************)
JWAlphabet == {97, 98}
MARTHA == <<77, 65, 82, 84, 72, 65>>
MARHTA == <<77, 65, 82, 72, 84, 65>>
JWStrings == SeqsUpTo(JWAlphabet, MaxJWLen) \cup {MARTHA, MARHTA}

InitJW ==
  /\ ModuleLoaded
  /\ names = <<>>
  /\ op = "ready"
  /\ arg1 \in JWStrings
  /\ arg2 \in JWStrings
  /\ res = NoResult

CallJaroWinkler ==
  /\ op = "ready"
  /\ op' = "jaroWinkler"
  /\ res' = jaroWinkler(arg1, arg2)
  /\ UNCHANGED <<arg1, arg2, names, tables, lastIndex>>

CallJaroWinklerJava ==
  /\ op = "ready"
  /\ op' = "J_jaroWinkler"
  /\ res' = J_jaroWinkler(arg1, arg2)
  /\ UNCHANGED <<arg1, arg2, names, tables, lastIndex>>

NextJW == CallJaroWinkler \/ CallJaroWinklerJava

SpecJW == InitJW /\ [][NextJW]_vars

JWDone == op \in {"jaroWinkler", "J_jaroWinkler"}

\* the same call with the arguments exchanged
Swapped ==
  IF op = "jaroWinkler" THEN jaroWinkler(arg2, arg1)
  ELSE J_jaroWinkler(arg2, arg1)

JSDone == op = "jaroWinkler"

\* what the loops of jaroWinkler compute for the current arguments
MatchesOfArgs ==
  CountTrue(FindMatches(arg1, arg2, matchWindow(Len(arg1), Len(arg2)), 0,
                        [x \in 1..Len(arg1) |-> FALSE],
                        [x \in 1..Len(arg2) |-> FALSE]).s1Matches)

TranspositionsOfArgs ==
  LET found == FindMatches(arg1, arg2, matchWindow(Len(arg1), Len(arg2)), 0,
                           [x \in 1..Len(arg1) |-> FALSE],
                           [x \in 1..Len(arg2) |-> FALSE])
  IN  CountTranspositions(arg1, arg2, found.s1Matches, found.s2Matches,
                          0, 0, 0)

\* C1: the similarity scorer is symmetric: the score of (a, b) is the score
\* the same function returns for (b, a), for equal and for different lengths.
C1_Symmetric == JWDone => res = Swapped

C1_Witness ==
  /\ JSDone
  /\ Len(arg1) < Len(arg2)
  /\ MatchesOfArgs >= 2
  /\ MatchesOfArgs < Len(arg1)
  /\ res = Swapped

\* C2: jaroWinkler(s, s) is exactly 1.0 for every string s, the empty string
\* included.
C2_Identity == (JSDone /\ arg1 = arg2) => res = One

C2_Witness == JSDone /\ arg1 = <<>> /\ arg2 = <<>> /\ res = One

\* C3: when exactly one of the two strings is empty, jaroWinkler returns the
\* value 0.0, in either argument order.
C3_OneEmpty ==
  (JWDone /\ ((arg1 = <<>>) # (arg2 = <<>>))) => res = Zero

C3_Witness == JSDone /\ arg1 # <<>> /\ arg2 = <<>> /\ res = Zero

\* C4: the score lies in [0, 1]: the prefix bonus never lifts it above 1 and
\* the transposition term never makes it negative.
C4_UnitInterval ==
  JWDone => (res # Diverged /\ RLe(Zero, res) /\ RLe(res, One))

C4_Witness ==
  /\ JSDone
  /\ arg1 # arg2
  /\ CommonPrefix(arg1, arg2, 0) = 4
  /\ RLt(Zero, res)
  /\ RLt(res, One)

\* C5: jaroWinkler("MARTHA", "MARHTA") finds 6 matches, 2 positions out of
\* order and a common prefix of 3, and returns 173/180.
C5_Martha ==
  (JSDone /\ arg1 = MARTHA /\ arg2 = MARHTA) =>
    /\ MatchesOfArgs = 6
    /\ TranspositionsOfArgs = 2
    /\ CommonPrefix(arg1, arg2, 0) = 3
    /\ res = <<173, 180>>

C5_Witness ==
  JSDone /\ arg1 = MARTHA /\ arg2 = MARHTA /\ res[1] * 180 = 173 * res[2]

(***************************************************************************)
(* Lookup tables                                                           *)
(***************************************************************************)
\* the character class restricted to the eight tashkeel marks U+064B-U+0652
IsDiacriticTashkeelOnly(c) == c >= 1611 /\ c <= 1618

\* ARABIC_DIACRITICS: U+064B-U+065F and U+0670
IsDiacritic(c) == (c >= 1611 /\ c <= 1631) \/ c = 1648

\* the character class U+0600-U+06FF
IsArabicChar(c) == c >= 1536 /\ c <= 1791

\* the table with yaa-hamza sent to alef maksura, itself a key
ARABIC_NORMALIZATIONS_Chained ==
  << <<1570, 1575>>, <<1571, 1575>>, <<1573, 1575>>, <<1649, 1575>>,
     <<1577, 1607>>, <<1609, 1610>>, <<1572, 1608>>, <<1574, 1609>> >>

\* Object.entries(ARABIC_NORMALIZATIONS), read when the call is made
ARABIC_NORMALIZATIONS == tables.ARABIC_NORMALIZATIONS

\* the table with the definite article kept instead of removed
PREFIXES_KeepArticle ==
  << <<AL, AL>>,
     <<<<1593, 1576, 1583, 32, 1575, 1604>>, ABDAL>>,
     <<ABDAL, ABDAL>>,
     <<<<1575, 1576, 1608, 32>>, <<1575, 1576, 1608>>>>,
     <<<<1571, 1576, 1608, 32>>, <<1575, 1576, 1608>>>>,
     <<<<1575, 1576, 1606, 32>>, <<1575, 1576, 1606>>>>,
     <<<<1576, 1606, 32>>, <<1576, 1606>>>>,
     <<<<1575, 1605, 32>>, <<1575, 1605>>>>,
     <<<<1571, 1605, 32>>, <<1575, 1605>>>> >>

\* Object.entries(PREFIXES), read when the call is made
PREFIXES == tables.PREFIXES

\* Object.entries(ENGLISH_PREFIXES), read when the call is made
ENGLISH_PREFIXES == tables.ENGLISH_PREFIXES

\* ARABIC_SOUNDEX[c]: the code unit of the group digit '1'..'9', or 0 when
\* the table has no entry for c (undefined)
ARABIC_SOUNDEX(c) ==
  IF c \in DOMAIN tables.ARABIC_SOUNDEX THEN tables.ARABIC_SOUNDEX[c] ELSE 0

(***************************************************************************)
(* String primitives of the runtime                                        *)
(***************************************************************************)
\* the characters matched by \s and removed by String.prototype.trim
IsWhitespace(c) ==
  \/ c \in {9, 10, 11, 12, 13, 32, 160, 5760, 8232, 8233, 8239, 8287,
            12288, 65279}
  \/ (c >= 8192 /\ c <= 8202)

StartsWith(text, prefix) ==
  /\ Len(prefix) <= Len(text)
  /\ SubSeq(text, 1, Len(prefix)) = prefix

\* text.substring(n)
Substring(text, n) == SubSeq(text, n + 1, Len(text))

\* toLowerCase / toUpperCase on Basic Latin; the other code units of the
\* explored alphabet have no case mapping
ToLowerCase(text) ==
  [i \in 1..Len(text) |->
     IF text[i] >= 65 /\ text[i] <= 90 THEN text[i] + 32 ELSE text[i]]

ToUpperCase(text) ==
  [i \in 1..Len(text) |->
     IF text[i] >= 97 /\ text[i] <= 122 THEN text[i] - 32 ELSE text[i]]

\* text.replace(/\s+/g, ' ')
RECURSIVE CollapseWhitespace(_)
CollapseWhitespace(text) ==
  IF text = <<>> THEN <<>>
  ELSE IF IsWhitespace(Head(text))
       THEN IF Len(text) > 1 /\ IsWhitespace(text[2])
            THEN CollapseWhitespace(Tail(text))
            ELSE <<32>> \o CollapseWhitespace(Tail(text))
       ELSE <<Head(text)>> \o CollapseWhitespace(Tail(text))

RECURSIVE TrimStart(_)
TrimStart(text) ==
  IF text # <<>> /\ IsWhitespace(Head(text)) THEN TrimStart(Tail(text))
  ELSE text

RECURSIVE TrimEnd(_)
TrimEnd(text) ==
  IF text # <<>> /\ IsWhitespace(text[Len(text)])
  THEN TrimEnd(SubSeq(text, 1, Len(text) - 1))
  ELSE text

\* only the leading whitespace removed
TrimLeadingOnly(text) == TrimStart(text)

Trim(text) == TrimEnd(TrimStart(text))

\* text.split(' '): never empty, ''.split(' ') is ['']
RECURSIVE Split(_, _)
Split(text, current) ==
  IF text = <<>> THEN <<current>>
  ELSE IF Head(text) = 32 THEN <<current>> \o Split(Tail(text), <<>>)
       ELSE Split(Tail(text), Append(current, Head(text)))

\* parts.join(' ')
RECURSIVE Join(_)
Join(parts) ==
  IF parts = <<>> THEN <<>>
  ELSE IF Len(parts) = 1 THEN parts[1]
       ELSE parts[1] \o <<32>> \o Join(Tail(parts))

\* text.replace(/\s/g, '')
RemoveWhitespace(text) == SelectSeq(text, LAMBDA c : ~IsWhitespace(c))

(***************************************************************************)
(* Normalization steps                                                     *)
(***************************************************************************)
\* lastIndex as ARABIC_DIACRITICS.test(text) would leave it: the end of the
\* first match at or after the previous lastIndex, 0 when there is none
lastIndexAfterTest(text, before) ==
  LET ends == {i \in (before + 1)..Len(text) : IsDiacritic(text[i])}
  IN  IF ends = {} THEN 0
      ELSE CHOOSE i \in ends : \A j \in ends : i <= j

\* lastIndex after text.replace(ARABIC_DIACRITICS, ''): replace with a global
\* pattern starts from 0 whatever lastIndex was and leaves 0 after its last,
\* failed, match
lastIndexAfterReplace(text, before) == 0

\* lastIndex after normalizeArabicName(name) or arabicSoundex(name): a falsy
\* argument returns before removeDiacritics is called
lastIndexAfterName(name, before) ==
  IF IsFalsy(name) THEN before ELSE lastIndexAfterReplace(name, before)

\* replace without the g flag: only the first diacritic is removed
RECURSIVE removeDiacriticsFirstOnly(_)
removeDiacriticsFirstOnly(text) ==
  IF text = <<>> THEN <<>>
  ELSE IF IsDiacritic(Head(text)) THEN Tail(text)
       ELSE <<Head(text)>> \o removeDiacriticsFirstOnly(Tail(text))

removeDiacritics(text) == SelectSeq(text, LAMBDA c : ~IsDiacritic(c))

\* replace without the g flag: only the first occurrence is replaced
ReplaceFirst(text, from, to) ==
  [i \in 1..Len(text) |->
     IF text[i] = from /\ \A j \in 1..(i - 1) : text[j] # from
     THEN to ELSE text[i]]

\* normalized.replace(new RegExp(from, 'g'), to)
ReplaceAll(text, from, to) ==
  [i \in 1..Len(text) |-> IF text[i] = from THEN to ELSE text[i]]

\* the loop over Object.entries(ARABIC_NORMALIZATIONS), from entry k on
RECURSIVE NormalizeLettersFrom(_, _)
NormalizeLettersFrom(normalized, k) ==
  IF k > Len(ARABIC_NORMALIZATIONS) THEN normalized
  ELSE NormalizeLettersFrom(
         ReplaceAll(normalized, ARABIC_NORMALIZATIONS[k][1],
                    ARABIC_NORMALIZATIONS[k][2]),
         k + 1)

normalizeArabicLetters(text) == NormalizeLettersFrom(text, 1)

\* Java: the static map filled by the initializer, as a set of <<key, value>>
J_ARABIC_NORMALIZATIONS ==
  { <<1570, 1575>>, <<1571, 1575>>, <<1573, 1575>>, <<1649, 1575>>,
    <<1577, 1607>>, <<1609, 1610>>, <<1572, 1608>>, <<1574, 1610>> }

\* Java: ARABIC_NORMALIZATIONS.get(c), c itself when the map has no entry
J_replacement(c) ==
  IF \E e \in J_ARABIC_NORMALIZATIONS : e[1] = c
  THEN (CHOOSE e \in J_ARABIC_NORMALIZATIONS : e[1] = c)[2]
  ELSE c

\* Java: one pass over the characters of the text
J_normalizeArabicLetters(text) ==
  IF text = Null THEN Null
  ELSE [i \in 1..Len(text) |-> J_replacement(text[i])]

\* the loop with a break after the first matching entry
RECURSIVE NormalizePrefixesFirstMatch(_, _, _)
NormalizePrefixesFirstMatch(table, normalized, k) ==
  IF k > Len(table) THEN normalized
  ELSE IF StartsWith(normalized, table[k][1])
       THEN table[k][2] \o Substring(normalized, Len(table[k][1]))
       ELSE NormalizePrefixesFirstMatch(table, normalized, k + 1)

\* the loop over the entries of a prefix table, from entry k on: every entry
\* is tested in turn against the string as rewritten so far
RECURSIVE NormalizePrefixesFrom(_, _, _)
NormalizePrefixesFrom(table, normalized, k) ==
  IF k > Len(table) THEN normalized
  ELSE IF StartsWith(normalized, table[k][1])
       THEN NormalizePrefixesFrom(table,
              table[k][2] \o Substring(normalized, Len(table[k][1])),
              k + 1)
       ELSE NormalizePrefixesFrom(table, normalized, k + 1)

normalizeArabicPrefixes(text) == NormalizePrefixesFrom(PREFIXES, text, 1)

\* the table tested against the text as written, without toLowerCase
normalizeEnglishPrefixesCaseSensitive(text) ==
  NormalizePrefixesFrom(ENGLISH_PREFIXES, text, 1)

normalizeEnglishPrefixes(text) ==
  NormalizePrefixesFrom(ENGLISH_PREFIXES, ToLowerCase(text), 1)

\* Java: the static prefix maps filled by the initializer, as sets of
\* <<key, value>>; a HashMap has no iteration order of its own
J_ARABIC_PREFIXES ==
  { <<AL, <<>>>>,
    <<<<1593, 1576, 1583, 32, 1575, 1604>>, ABDAL>>,
    <<ABDAL, ABDAL>> }

\* the map with one more entry, the article without its separator
J_ENGLISH_PREFIXES_WithBareArticle ==
  { <<<<97, 108>>, <<>>>>,
    <<<<97, 108, 45>>, <<>>>>,
    <<<<97, 108, 32>>, <<>>>>,
    <<<<101, 108, 45>>, <<>>>>,
    <<<<101, 108, 32>>, <<>>>>,
    <<<<97, 98, 100, 45>>, <<97, 98, 100>>>>,
    <<<<97, 98, 100, 32>>, <<97, 98, 100>>>>,
    <<<<97, 98, 100, 101, 108, 45>>, <<97, 98, 100, 101, 108>>>>,
    <<<<97, 98, 100, 101, 108, 32>>, <<97, 98, 100, 101, 108>>>>,
    <<<<97, 98, 100, 117, 108, 45>>, <<97, 98, 100, 117, 108>>>>,
    <<<<97, 98, 100, 117, 108, 32>>, <<97, 98, 100, 117, 108>>>>,
    <<<<97, 98, 117, 45>>, <<97, 98, 117>>>>,
    <<<<97, 98, 117, 32>>, <<97, 98, 117>>>> }

J_ENGLISH_PREFIXES ==
  { <<<<97, 108, 45>>, <<>>>>,
    <<<<97, 108, 32>>, <<>>>>,
    <<<<101, 108, 45>>, <<>>>>,
    <<<<101, 108, 32>>, <<>>>>,
    <<<<97, 98, 100, 45>>, <<97, 98, 100>>>>,
    <<<<97, 98, 100, 32>>, <<97, 98, 100>>>>,
    <<<<97, 98, 100, 101, 108, 45>>, <<97, 98, 100, 101, 108>>>>,
    <<<<97, 98, 100, 101, 108, 32>>, <<97, 98, 100, 101, 108>>>>,
    <<<<97, 98, 100, 117, 108, 45>>, <<97, 98, 100, 117, 108>>>>,
    <<<<97, 98, 100, 117, 108, 32>>, <<97, 98, 100, 117, 108>>>>,
    <<<<97, 98, 117, 45>>, <<97, 98, 117>>>>,
    <<<<97, 98, 117, 32>>, <<97, 98, 117>>>> }

\* Java: the loop over entrySet() with a break at the first matching entry.
\* Whichever entry the iteration reaches first among the matching ones
\* rewrites the text, so the results over all iteration orders are the
\* rewrites by each matching entry, or the text itself when none matches.
J_FirstMatchResults(table, normalized) ==
  IF \E e \in table : StartsWith(normalized, e[1])
  THEN {e[2] \o Substring(normalized, Len(e[1])) :
          e \in {x \in table : StartsWith(normalized, x[1])}}
  ELSE {normalized}

\* Java: the results normalizeArabicPrefixes can return for a non-null text
J_normalizeArabicPrefixes(text) ==
  J_FirstMatchResults(J_ARABIC_PREFIXES, text)

\* Java: the results normalizeEnglishPrefixes can return for a non-null text
J_normalizeEnglishPrefixes(text) ==
  J_FirstMatchResults(J_ENGLISH_PREFIXES, ToLowerCase(text))

(***************************************************************************)
(* arabicSoundex                                                           *)
(***************************************************************************)
\* the loop with "lastCode = code" outside the test: an unmapped character
\* or a repeated digit also overwrites lastCode
RECURSIVE SoundexLoopAlwaysAdvance(_, _, _, _)
SoundexLoopAlwaysAdvance(normalized, i, soundex, lastCode) ==
  IF i < Len(normalized) /\ Len(soundex) < 6
  THEN LET code == ARABIC_SOUNDEX(normalized[i + 1])
       IN  IF code # 0 /\ code # lastCode
           THEN SoundexLoopAlwaysAdvance(normalized, i + 1,
                                         Append(soundex, code), code)
           ELSE SoundexLoopAlwaysAdvance(normalized, i + 1, soundex, code)
  ELSE soundex

\* "for (i = 1; i < normalized.length && soundex.length < 6; i++)"
RECURSIVE SoundexLoop(_, _, _, _)
SoundexLoop(normalized, i, soundex, lastCode) ==
  IF i < Len(normalized) /\ Len(soundex) < 6
  THEN LET code == ARABIC_SOUNDEX(normalized[i + 1])
       IN  IF code # 0 /\ code # lastCode
           THEN SoundexLoop(normalized, i + 1, Append(soundex, code), code)
           ELSE SoundexLoop(normalized, i + 1, soundex, lastCode)
  ELSE soundex

\* "while (soundex.length < 6) soundex += '0'"
RECURSIVE PadZeros(_)
PadZeros(soundex) ==
  IF Len(soundex) < 6 THEN PadZeros(Append(soundex, 48)) ELSE soundex

\* When nothing is left after the diacritics are removed, normalized[0] is
\* undefined and "soundex.length" raises a TypeError.
arabicSoundex(text) ==
  IF IsFalsy(text) THEN <<>>
  ELSE LET normalized == normalizeArabicLetters(removeDiacritics(text))
       IN  IF normalized = <<>> THEN Threw
           ELSE PadZeros(SoundexLoop(normalized, 1, <<normalized[1]>>,
                                     ARABIC_SOUNDEX(normalized[1])))

(***************************************************************************)
(* normalizeArabicName / normalizeEnglishName                              *)
(***************************************************************************)
\* the whole-name code taken from the first token instead of from the name
\* with its spaces removed
normalizeArabicNameFirstTokenCode(name) ==
  IF IsFalsy(name)
  THEN [original |-> <<>>, normalized |-> <<>>, soundex |-> <<>>,
        parts |-> <<>>]
  ELSE LET normalized ==
             Trim(CollapseWhitespace(normalizeArabicPrefixes(
               normalizeArabicLetters(removeDiacritics(name)))))
           tokens == Split(normalized, <<>>)
           parts == [i \in 1..Len(tokens) |->
                       [original |-> tokens[i],
                        soundex |-> arabicSoundex(tokens[i])]]
       IN  [original |-> name, normalized |-> normalized,
            soundex |-> parts[1].soundex, parts |-> parts]

normalizeArabicName(name) ==
  IF IsFalsy(name)
  THEN [original |-> <<>>, normalized |-> <<>>, soundex |-> <<>>,
        parts |-> <<>>]
  ELSE LET normalized ==
             Trim(CollapseWhitespace(normalizeArabicPrefixes(
               normalizeArabicLetters(removeDiacritics(name)))))
           tokens == Split(normalized, <<>>)
           parts == [i \in 1..Len(tokens) |->
                       [original |-> tokens[i],
                        soundex |-> arabicSoundex(tokens[i])]]
           fullSoundex == arabicSoundex(RemoveWhitespace(normalized))
       IN  IF fullSoundex = Threw
              \/ \E i \in 1..Len(parts) : parts[i].soundex = Threw
           THEN Thrown
           ELSE [original |-> name, normalized |-> normalized,
                 soundex |-> fullSoundex, parts |-> parts]

\* part.charAt(0).toUpperCase() + part.slice(1)
Capitalize(part) ==
  IF part = <<>> THEN <<>>
  ELSE ToUpperCase(<<part[1]>>) \o Tail(part)

normalizeEnglishName(name) ==
  IF IsFalsy(name)
  THEN [original |-> <<>>, normalized |-> <<>>, parts |-> <<>>]
  ELSE LET tokens ==
             Split(Trim(CollapseWhitespace(normalizeEnglishPrefixes(name))),
                   <<>>)
           normalized ==
             Join([i \in 1..Len(tokens) |-> Capitalize(tokens[i])])
       IN  [original |-> name, normalized |-> normalized,
            parts |-> Split(normalized, <<>>)]

\* the test of a name against U+0600-U+06FF
isArabic(name) == \E i \in 1..Len(name) : IsArabicChar(name[i])

(***************************************************************************)
(* arabicSoundex on its own: strings over a group-1 letter, a group-2      *)
(* letter, a hamza-bearing alef (canonicalized to the unmapped alef), a    *)
(* diacritic and a second group-1 letter.                                  *)
(***************************************************************************)
SoundexAlphabet == {1576, 1587, 1571, 1614, 1601}
SoundexStrings == SeqsUpTo(SoundexAlphabet, MaxSoundexLen)

InitSoundex ==
  /\ ModuleLoaded
  /\ names = <<>>
  /\ op = "ready"
  /\ arg1 \in SoundexStrings
  /\ arg2 = <<>>
  /\ res = NoResult

CallArabicSoundex ==
  /\ op = "ready"
  /\ op' = "arabicSoundex"
  /\ res' = arabicSoundex(arg1)
  /\ lastIndex' = lastIndexAfterName(arg1, lastIndex)
  /\ UNCHANGED <<arg1, arg2, names, tables>>

NextSoundex == CallArabicSoundex

SpecSoundex == InitSoundex /\ [][NextSoundex]_vars

(***************************************************************************)
(* normalizeArabicLetters on its own: strings over the eight variant       *)
(* letters, their four canonical letters and one letter outside the table. *)
(***************************************************************************)
LettersAlphabet ==
  {1570, 1571, 1573, 1649, 1577, 1609, 1572, 1574,
   1575, 1607, 1610, 1608, 1605}
LettersStrings == SeqsUpTo(LettersAlphabet, MaxLettersLen)

InitLetters ==
  /\ ModuleLoaded
  /\ names = <<>>
  /\ op = "ready"
  /\ arg1 \in LettersStrings
  /\ arg2 = <<>>
  /\ res = NoResult

CallNormalizeArabicLetters ==
  /\ op = "ready"
  /\ op' = "normalizeArabicLetters"
  /\ res' = normalizeArabicLetters(arg1)
  /\ UNCHANGED <<arg1, arg2, names, tables, lastIndex>>

CallNormalizeArabicLettersJava ==
  /\ op = "ready"
  /\ op' = "J_normalizeArabicLetters"
  /\ res' = J_normalizeArabicLetters(arg1)
  /\ UNCHANGED <<arg1, arg2, names, tables, lastIndex>>

NextLetters == CallNormalizeArabicLetters \/ CallNormalizeArabicLettersJava

SpecLetters == InitLetters /\ [][NextLetters]_vars

(***************************************************************************)
(* Name normalization: names are concatenations of at most MaxNameTokens   *)
(* tokens (prefixes, letters, diacritics, whitespace, Latin fragments),    *)
(* or null.                                                                *)
(***************************************************************************)
NameTokens ==
  { AL, ABD, <<1593, 1576, 1583, 32, 1575, 1604>>, <<1576, 1606>>,
    <<32>>, <<9>>, <<32, 9>>, <<1605>>, <<1571>>, <<1614>>, <<1648>>,
    <<97, 108>>, <<45>>, <<83>> }

RECURSIVE Concat(_)
Concat(tokens) ==
  IF tokens = <<>> THEN <<>> ELSE Head(tokens) \o Concat(Tail(tokens))

NameStrings == {Concat(t) : t \in SeqsUpTo(NameTokens, MaxNameTokens)}

InitName ==
  /\ ModuleLoaded
  /\ names = <<>>
  /\ op = "ready"
  /\ arg1 \in NameStrings \cup {Null}
  /\ arg2 = <<>>
  /\ res = NoResult

\* POST /normalize with nameArabic, or a direct call of the export
CallNormalizeArabicName ==
  /\ op = "ready"
  /\ op' = "normalizeArabicName"
  /\ res' = normalizeArabicName(arg1)
  /\ lastIndex' = lastIndexAfterName(arg1, lastIndex)
  /\ UNCHANGED <<arg1, arg2, names, tables>>

CallNormalizeEnglishName ==
  /\ op = "ready"
  /\ op' = "normalizeEnglishName"
  /\ res' = normalizeEnglishName(arg1)
  /\ UNCHANGED <<arg1, arg2, names, tables, lastIndex>>

\* GET /soundex/:name, the route parameter is always a string
GetSoundex ==
  /\ op = "ready"
  /\ arg1 # Null
  /\ op' = "GetSoundex"
  /\ res' = IF isArabic(arg1) THEN normalizeArabicName(arg1)
            ELSE normalizeEnglishName(arg1)
  /\ lastIndex' = IF isArabic(arg1) THEN lastIndexAfterName(arg1, lastIndex)
                  ELSE lastIndex
  /\ UNCHANGED <<arg1, arg2, names, tables>>

NextName ==
  \/ CallNormalizeArabicName
  \/ CallNormalizeEnglishName
  \/ GetSoundex

SpecName == InitName /\ [][NextName]_vars

\* the input of the current call after diacritic removal and letter
\* canonicalization
CanonicalArg == normalizeArabicLetters(removeDiacritics(arg1))

\* C6: arabicSoundex returns the empty string (for the empty input only) or
\* exactly 6 characters: the first letter of the canonicalized input, then
\* group digits 1-9, then only pad characters '0'.
C6_SoundexShape ==
  op = "arabicSoundex" =>
    /\ res # Threw
    /\ (res = <<>>) <=> (arg1 = <<>>)
    /\ res # <<>> =>
         /\ Len(res) = 6
         /\ CanonicalArg # <<>>
         /\ res[1] = CanonicalArg[1]
         /\ \A i \in 2..6 : res[i] >= 48 /\ res[i] <= 57
         /\ \A i \in 2..5 : res[i] = 48 => res[i + 1] = 48

\* C7: whichever branch the script detector selects, the normalized string
\* contains no code unit in U+064B-U+065F and no U+0670.
C7_NoDiacritics ==
  (op = "GetSoundex" /\ res # Thrown) =>
    \A i \in 1..Len(res.normalized) :
      /\ ~(res.normalized[i] >= 1611 /\ res.normalized[i] <= 1631)
      /\ res.normalized[i] # 1648

C7_Witness ==
  /\ op = "GetSoundex"
  /\ \E i \in 1..Len(arg1) : arg1[i] = 1648
  /\ \E i \in 1..Len(arg1) : arg1[i] = 1614
  /\ res # Thrown
  /\ Len(res.normalized) = 1

\* C8: letter canonicalization is idempotent: canonicalizing the result of
\* normalizeArabicLetters again changes nothing.
C8_LettersIdempotent ==
  op = "normalizeArabicLetters" => normalizeArabicLetters(res) = res

C8_Witness ==
  /\ op = "normalizeArabicLetters"
  /\ arg1 = <<1574, 1609>>
  /\ res = <<1610, 1610>>

OnlyIsolatedSpaces(text) ==
  \A i \in 1..Len(text) :
    IsWhitespace(text[i]) =>
      text[i] = 32 /\ i > 1 /\ ~IsWhitespace(text[i - 1])

\* the canonicalized input without its one leading definite article
ArgAfterArticle ==
  IF StartsWith(CanonicalArg, AL) THEN Substring(CanonicalArg, 2)
  ELSE CanonicalArg

ArabicCallDone ==
  op = "normalizeArabicName" /\ arg1 # Null /\ isArabic(arg1)

\* C10 as stated: for every Arabic-script input the normalized string begins
\* with no key of the Arabic prefix table.
C10_NoLeadingPrefixKey ==
  (ArabicCallDone /\ res # Thrown) =>
    \A k \in 1..Len(PREFIXES) : ~StartsWith(res.normalized, PREFIXES[k][1])

\* C10 amended: when the canonicalized input, after one leading definite
\* article is removed, does not begin with a second article and has no
\* whitespace other than isolated single spaces, the normalized string
\* begins with no key of the table except 'abdal', the key that is its own
\* replacement.
C10_NoLeadingPrefixKeyAmended ==
  (/\ ArabicCallDone
   /\ res # Thrown
   /\ ~StartsWith(ArgAfterArticle, AL)
   /\ OnlyIsolatedSpaces(ArgAfterArticle)) =>
    \A k \in 1..Len(PREFIXES) :
      StartsWith(res.normalized, PREFIXES[k][1]) => PREFIXES[k][1] = ABDAL

C10_Witness ==
  /\ ArabicCallDone
  /\ res # Thrown
  /\ StartsWith(CanonicalArg, AL)
  /\ ~StartsWith(ArgAfterArticle, AL)
  /\ OnlyIsolatedSpaces(ArgAfterArticle)
  /\ StartsWith(ArgAfterArticle, <<1593, 1576, 1583, 32, 1575, 1604>>)
  /\ res.normalized = ABDAL \o <<1605>>

NameCallDone ==
  /\ op \in {"normalizeArabicName", "normalizeEnglishName", "GetSoundex"}
  /\ arg1 # Null
  /\ arg1 # <<>>
  /\ res # Thrown

EnglishTokens ==
  { <<97, 108>>, <<65, 108>>, <<69, 76>>, <<101, 108>>, <<45>>, <<32>>,
    <<97, 98, 100>>, <<98>>, <<89>> }

AL_SAYED == <<65, 108, 45, 83, 97, 121, 101, 100>>

EnglishStrings ==
  {Concat(t) : t \in SeqsUpTo(EnglishTokens, MaxEnglishTokens)}
    \cup {AL_SAYED}

InitEnglish ==
  /\ ModuleLoaded
  /\ names = <<>>
  /\ op = "ready"
  /\ arg1 \in EnglishStrings
  /\ arg2 = <<>>
  /\ res = NoResult

NextEnglish == CallNormalizeEnglishName

SpecEnglish == InitEnglish /\ [][NextEnglish]_vars

IsLatinLetter(c) == (c >= 65 /\ c <= 90) \/ (c >= 97 /\ c <= 122)

\* the argument is 'al-', 'al ', 'el-' or 'el ' in any letter case followed
\* by one word made of letters only
ArticleThenWord ==
  /\ arg1 # Null
  /\ Len(arg1) > 3
  /\ ToLowerCase(SubSeq(arg1, 1, 3)) \in
       { <<97, 108, 45>>, <<97, 108, 32>>, <<101, 108, 45>>, <<101, 108, 32>> }
  /\ \A i \in 4..Len(arg1) : IsLatinLetter(arg1[i])

\* first character upper-cased, the remaining characters lower-cased
TitleCase(w) == ToUpperCase(<<w[1]>>) \o ToLowerCase(Tail(w))

\* C12: a Latin name made of 'al-', 'al ', 'el-' or 'el ' in any letter case
\* and one word w of letters normalizes to w in title case, and that word is
\* the only element of parts.
C12_ArticleStripped ==
  (op = "normalizeEnglishName" /\ ArticleThenWord) =>
    /\ res.normalized = TitleCase(Substring(arg1, 3))
    /\ res.parts = <<TitleCase(Substring(arg1, 3))>>

C12_Witness ==
  /\ op = "normalizeEnglishName"
  /\ arg1 = AL_SAYED
  /\ res.normalized = <<83, 97, 121, 101, 100>>
  /\ Len(res.parts) = 1

(***************************************************************************)
(* POST /compare                                                           *)
(***************************************************************************)
RMax(a, b) == IF RLe(b, a) THEN a ELSE b

\* the floor applied whatever the phonetic codes are
MatchScoreAlwaysFloored(soundexMatch, similarity) ==
  RMax(similarity, Rat(85, 100))

\* soundexMatch ? Math.max(similarity, 0.85) : similarity
MatchScore(soundexMatch, similarity) ==
  IF soundexMatch THEN RMax(similarity, Rat(85, 100)) ELSE similarity

\* the handler normalizes both names with normalizeArabicName, whatever
\* their script
Compare(name1, name2) ==
  LET norm1 == normalizeArabicName(name1)
      norm2 == normalizeArabicName(name2)
  IN  IF norm1 = Thrown \/ norm2 = Thrown THEN Thrown
      ELSE LET soundexMatch == norm1.soundex = norm2.soundex
               similarity == jaroWinkler(norm1.normalized, norm2.normalized)
           IN  [name1 |-> norm1, name2 |-> norm2,
                soundexMatch |-> soundexMatch,
                similarity |-> similarity,
                matchScore |-> MatchScore(soundexMatch, similarity)]

(***************************************************************************)
(* Pairs of names: concatenations of at most MaxCompareTokens tokens (the  *)
(* definite article, three Arabic letters of which two share a phonetic    *)
(* group, a shadda with a fatha, two Latin letters).                       *)
(***************************************************************************)
CompareTokens ==
  { AL, <<1605>>, <<1576>>, <<1601>>, <<1617, 1614>>, <<83>>, <<97>> }

CompareStrings ==
  {Concat(t) : t \in SeqsUpTo(CompareTokens, MaxCompareTokens)}

InitCompare ==
  /\ ModuleLoaded
  /\ names = <<>>
  /\ op = "ready"
  /\ arg1 \in CompareStrings
  /\ arg2 \in CompareStrings
  /\ res = NoResult

PostCompare ==
  /\ op = "ready"
  /\ op' = "compare"
  /\ res' = Compare(arg1, arg2)
  /\ lastIndex' = lastIndexAfterName(arg2, lastIndexAfterName(arg1, lastIndex))
  /\ UNCHANGED <<arg1, arg2, names, tables>>

NextCompare == PostCompare

SpecCompare == InitCompare /\ [][NextCompare]_vars

CompareDone == op = "compare" /\ res # Thrown

\* a string without its code units in U+064B-U+065F and U+0670
StripMarks(text) ==
  SelectSeq(text, LAMBDA c : ~((c >= 1611 /\ c <= 1631) \/ c = 1648))

\* C13: two names that differ only by diacritics (inserted or deleted at any
\* positions) get the same normalized string and the same whole-name
\* phonetic code.
C13_DiacriticInsensitive ==
  (CompareDone /\ StripMarks(arg1) = StripMarks(arg2)) =>
    /\ res.name1.normalized = res.name2.normalized
    /\ res.name1.soundex = res.name2.soundex

C13_Witness ==
  /\ CompareDone
  /\ arg1 = <<1605, 1617, 1614>>
  /\ arg2 = <<1617, 1614, 1605>>
  /\ res.name1.normalized = <<1605>>
  /\ res.name1.soundex = res.name2.soundex

\* one name is the other with a leading definite article, diacritics aside
DifferByArticle ==
  \/ StripMarks(arg1) = AL \o StripMarks(arg2)
  \/ StripMarks(arg2) = AL \o StripMarks(arg1)

\* the name without the article, canonicalized
ShorterCanonical ==
  IF Len(StripMarks(arg1)) <= Len(StripMarks(arg2))
  THEN normalizeArabicLetters(StripMarks(arg1))
  ELSE normalizeArabicLetters(StripMarks(arg2))

BothArabic == isArabic(arg1) /\ isArabic(arg2)

\* C14 as stated: two Arabic names that differ only by the leading definite
\* article and by diacritics have a phonetic match and a final score of at
\* least 0.85.
C14_ArticleMatch ==
  (CompareDone /\ BothArabic /\ DifferByArticle) =>
    /\ res.soundexMatch
    /\ RLe(Rat(85, 100), res.matchScore)

\* C14 amended: the same, when the name without the article does not itself
\* begin with the article after letter canonicalization.
C14_ArticleMatchAmended ==
  (/\ CompareDone
   /\ BothArabic
   /\ DifferByArticle
   /\ ~StartsWith(ShorterCanonical, AL)) =>
    /\ res.soundexMatch
    /\ RLe(Rat(85, 100), res.matchScore)

C14_Witness ==
  /\ CompareDone
  /\ arg1 = AL \o <<1605>>
  /\ arg2 = <<1605, 1617, 1614>>
  /\ res.soundexMatch
  /\ res.matchScore = One

\* C15: for two Arabic-script names the final score is max(jaroWinkler of
\* the normalized strings, 0.85) when the whole-name phonetic codes are
\* equal and that jaroWinkler value otherwise; the reported raw similarity
\* is the jaroWinkler value in both cases.
C15_FloorOnPhoneticMatch ==
  (CompareDone /\ BothArabic) =>
    LET jw == jaroWinkler(res.name1.normalized, res.name2.normalized)
    IN  /\ res.similarity = jw
        /\ res.name1.soundex = res.name2.soundex =>
             res.matchScore = (IF RLe(Rat(85, 100), jw) THEN jw
                               ELSE Rat(85, 100))
        /\ res.name1.soundex # res.name2.soundex => res.matchScore = jw

C15_Witness ==
  /\ CompareDone
  /\ arg1 = <<1605, 1576>>
  /\ arg2 = <<1605, 1601>>
  /\ res.soundexMatch
  /\ res.similarity = Rat(7, 10)
  /\ res.matchScore = Rat(85, 100)

C15_WitnessNoMatch ==
  /\ CompareDone
  /\ BothArabic
  /\ ~res.soundexMatch
  /\ RLt(Zero, res.matchScore)
  /\ RLt(res.matchScore, Rat(85, 100))

\* C16: when neither name contains an Arabic-block code unit the final
\* score is jaroWinkler of the two normalized strings; a phonetic-code
\* agreement never raises it to 0.85.
C16_NoFloorForLatin ==
  (CompareDone /\ ~isArabic(arg1) /\ ~isArabic(arg2)) =>
    res.matchScore =
      jaroWinkler(res.name1.normalized, res.name2.normalized)

\* C17: when exactly one name contains an Arabic-block code unit the
\* comparison reports no phonetic match and applies no floor.
C17_NoPhoneticMatchForMixed ==
  (CompareDone /\ (isArabic(arg1) # isArabic(arg2))) =>
    /\ ~res.soundexMatch
    /\ res.matchScore = res.similarity

\* C18: every exported operation returns a value for every string input:
\* arabicSoundex and the normalizers raise nothing, and the transposition
\* scan of jaroWinkler never runs past the end of the second string.
C18_NeverFails ==
  /\ op = "arabicSoundex" => res # Threw
  /\ op \in {"jaroWinkler", "J_jaroWinkler"} => res # Diverged
  /\ op \in {"normalizeArabicName", "normalizeEnglishName", "GetSoundex",
             "compare"} => res # Thrown

(***************************************************************************)
(* The reference computation of the similarity score, on 1-based           *)
(* positions and sets of used positions.                                   *)
(***************************************************************************)
RefWindow(len1, len2) == Max2(0, (Max2(len1, len2) \div 2) - 1)

SetMin(S) == CHOOSE x \in S : \A y \in S : x <= y

\* for each position of s1 from i on, the position of s2 it is matched to:
\* the first unused equal character within the window, 0 when there is none
RECURSIVE RefAssign(_, _, _, _, _)
RefAssign(s1, s2, w, i, used) ==
  IF i > Len(s1) THEN <<>>
  ELSE LET cand == {j \in 1..Len(s2) :
                      /\ j \notin used
                      /\ j >= i - w
                      /\ j <= i + w
                      /\ s2[j] = s1[i]}
       IN  IF cand = {} THEN <<0>> \o RefAssign(s1, s2, w, i + 1, used)
           ELSE <<SetMin(cand)>> \o
                RefAssign(s1, s2, w, i + 1, used \cup {SetMin(cand)})

\* the characters of text at the positions of P, in increasing position
RECURSIVE CharsAt(_, _)
CharsAt(text, P) ==
  IF P = {} THEN <<>>
  ELSE <<text[SetMin(P)]>> \o CharsAt(text, P \ {SetMin(P)})

RefJaroWinkler(s1, s2) ==
  LET len1 == Len(s1)
      len2 == Len(s2)
      assigned == RefAssign(s1, s2, RefWindow(len1, len2), 1, {})
      P1 == {i \in 1..len1 : assigned[i] # 0}
      P2 == {assigned[i] : i \in P1}
      m == Cardinality(P1)
      M1 == CharsAt(s1, P1)
      M2 == CharsAt(s2, P2)
      t == Cardinality({k \in 1..m : M1[k] # M2[k]})
      p == Cardinality({n \in 1..Min2(4, Min2(len1, len2)) :
                          \A k \in 1..n : s1[k] = s2[k]})
      jn == 2 * m * m * len2 + 2 * m * m * len1 + (2 * m - t) * len1 * len2
      jd == 6 * m * len1 * len2
  IN  IF m = 0 THEN Zero
      ELSE Rat(10 * jn + p * (jd - jn), 10 * jd)

C20_WitnessTransposed ==
  /\ JSDone
  /\ Len(arg1) # Len(arg2)
  /\ TranspositionsOfArgs = 2
  /\ MatchesOfArgs = 3
  /\ res = RefJaroWinkler(arg1, arg2)

(***************************************************************************)
(* The engine as a server: requests arrive one after the other, each is    *)
(* served to completion by one handler or exported function (no handler    *)
(* awaits), and the shared state is carried from one call to the next.     *)
(***************************************************************************)
\* names.map(name => ({arabic: ..., english: ...})), from element i on
RECURSIVE MapNames(_, _)
MapNames(body, i) ==
  IF i > Len(body) THEN <<>>
  ELSE <<[arabic |-> normalizeArabicName(body[i].arabic),
          english |-> normalizeEnglishName(body[i].english)]>>
       \o MapNames(body, i + 1)

\* lastIndex after the callback has run on the elements from i on
RECURSIVE lastIndexAfterNames(_, _, _)
lastIndexAfterNames(body, i, before) ==
  IF i > Len(body) THEN before
  ELSE lastIndexAfterNames(body, i + 1,
                           lastIndexAfterName(body[i].arabic, before))

\* POST /normalize with a names array; an exception of the callback is
\* caught and answered with status 500
PostNormalizeNames ==
  /\ op = "ready"
  /\ op' = "normalizeNames"
  /\ res' = LET results == MapNames(names, 1)
            IN  IF \E i \in 1..Len(results) :
                     results[i].arabic = Thrown \/ results[i].english = Thrown
                THEN Thrown
                ELSE [results |-> results]
  /\ lastIndex' = lastIndexAfterNames(names, 1, lastIndex)
  /\ UNCHANGED <<arg1, arg2, names, tables>>

MEEM_FATHA == <<1605, 1614>>
AL_MEEM == AL \o <<1605>>
AL_S == <<97, 108, 45, 83>>

EngineStrings == {<<>>, <<1605>>, MEEM_FATHA, AL_MEEM, <<83>>, AL_S}

\* an element of the names array; a missing property is undefined
NameEntries ==
  [arabic : {Null, MEEM_FATHA, AL_MEEM}, english : {Null, AL_S}]

NameBatches == SeqsUpTo(NameEntries, MaxBatch)

\* a request carries either strings or a names array
Requests ==
  {[arg1 |-> a, arg2 |-> b, names |-> <<>>] :
     a \in EngineStrings, b \in EngineStrings}
  \cup {[arg1 |-> <<>>, arg2 |-> <<>>, names |-> n] : n \in NameBatches}

InitEngine ==
  /\ ModuleLoaded
  /\ op = "ready"
  /\ res = NoResult
  /\ \E r \in Requests :
       /\ arg1 = r.arg1
       /\ arg2 = r.arg2
       /\ names = r.names

\* the previous call has returned and the next request is received
NextRequest ==
  /\ op # "ready"
  /\ op' = "ready"
  /\ res' = NoResult
  /\ \E r \in Requests :
       /\ arg1' = r.arg1
       /\ arg2' = r.arg2
       /\ names' = r.names
  /\ UNCHANGED <<tables, lastIndex>>

NextEngine ==
  \/ NextRequest
  \/ CallNormalizeArabicName
  \/ CallNormalizeEnglishName
  \/ GetSoundex
  \/ CallArabicSoundex
  \/ CallJaroWinkler
  \/ PostCompare
  \/ PostNormalizeNames

SpecEngine == InitEngine /\ [][NextEngine]_vars

\* C19: after any sequence of normalize, phonetic-code, similarity, compare
\* and batch calls the four lookup tables hold what the module's top level
\* declared and the lastIndex of the shared pattern is 0; the result of a
\* call is the function of its own arguments, and the i-th result of a batch
\* is the pair of normalizations of the i-th element alone.
C19_SharedStateUnchanged ==
  /\ tables = TablesAtLoad
  /\ lastIndex = 0
  /\ op = "normalizeArabicName" => res = normalizeArabicName(arg1)
  /\ op = "normalizeEnglishName" => res = normalizeEnglishName(arg1)
  /\ op = "arabicSoundex" => res = arabicSoundex(arg1)
  /\ op = "jaroWinkler" => res = jaroWinkler(arg1, arg2)
  /\ op = "compare" => res = Compare(arg1, arg2)
  /\ op = "normalizeNames" =>
       /\ res # Thrown
       /\ Len(res.results) = Len(names)
       /\ \A i \in 1..Len(names) :
            /\ res.results[i].arabic = normalizeArabicName(names[i].arabic)
            /\ res.results[i].english = normalizeEnglishName(names[i].english)

\* a batch of two different elements, the first with a diacritic: the second
\* result is what the second element gives when it is sent alone
C19_Witness ==
  /\ op = "normalizeNames"
  /\ names = <<[arabic |-> MEEM_FATHA, english |-> Null],
               [arabic |-> AL_MEEM, english |-> AL_S]>>
  /\ res.results[1].arabic.normalized = <<1605>>
  /\ res.results[2].arabic.normalized = <<1605>>
  /\ res.results[2].english.normalized = <<83>>
  /\ res.results[2] = MapNames(<<names[2]>>, 1)[1]
  /\ tables = TablesAtLoad
  /\ lastIndex = 0

(***************************************************************************)
(* The de-duplication of arabicSoundex, stated on the whole string.        *)
(***************************************************************************)
\* the group digits of the mapped characters after the first one, in order
MappedDigits(normalized) ==
  LET rest == SelectSeq(Tail(normalized), LAMBDA c : ARABIC_SOUNDEX(c) # 0)
  IN  [i \in 1..Len(rest) |-> ARABIC_SOUNDEX(rest[i])]

\* the digits that differ from the mapped digit before them, the first one
\* from the digit of the first character
RECURSIVE Collapsed(_, _)
Collapsed(digits, previous) ==
  IF digits = <<>> THEN <<>>
  ELSE IF Head(digits) = previous THEN Collapsed(Tail(digits), previous)
       ELSE <<Head(digits)>> \o Collapsed(Tail(digits), Head(digits))

ExpectedSoundex(normalized) ==
  LET emitted == Collapsed(MappedDigits(normalized),
                           ARABIC_SOUNDEX(normalized[1]))
  IN  [i \in 1..6 |-> IF i = 1 THEN normalized[1]
                      ELSE IF i - 1 <= Len(emitted) THEN emitted[i - 1]
                      ELSE 48]

\* C21: the code is the first character followed by the first five digits of
\* the mapped characters that differ from the previous mapped digit (the
\* first one from the digit of the first character), padded with '0':
\* unmapped characters leave lastCode alone, a letter of the first letter's
\* group right after it emits nothing, no two adjacent emitted digits are
\* equal.
C21_Deduplication ==
  (op = "arabicSoundex" /\ res # Threw /\ res # <<>>) =>
    /\ res = ExpectedSoundex(CanonicalArg)
    /\ \A i \in 2..5 : res[i] # 48 => res[i] # res[i + 1]
    /\ (Len(CanonicalArg) = 2
        /\ ARABIC_SOUNDEX(CanonicalArg[1]) # 0
        /\ ARABIC_SOUNDEX(CanonicalArg[2]) = ARABIC_SOUNDEX(CanonicalArg[1]))
       => res = <<CanonicalArg[1], 48, 48, 48, 48, 48>>

\* beh, feh (same group, emits nothing), seen, alef (unmapped), seen (same
\* group as the seen before the alef, emits nothing)
C21_Witness ==
  /\ op = "arabicSoundex"
  /\ arg1 = <<1576, 1601, 1587, 1571, 1587>>
  /\ res = <<1576, 50, 48, 48, 48, 48>>

(***************************************************************************)
(* The prefix normalizers on their own: strings of at most MaxPrefixTokens *)
(* tokens, Latin and Arabic prefixes with and without their separator and  *)
(* two plain letters.                                                      *)
(***************************************************************************)
ABD_HYPHEN == <<97, 98, 100, 45>>
EL_HYPHEN == <<101, 108, 45>>
AL_HYPHEN == <<97, 108, 45>>
ABU_SPACE == <<97, 98, 117, 32>>
ABD_SPACE_AR == <<1593, 1576, 1583, 32>>
IBN_SPACE_AR == <<1575, 1576, 1606, 32>>

PrefixTokens ==
  { ABD_HYPHEN, EL_HYPHEN, AL_HYPHEN, ABU_SPACE, <<65, 108, 45>>, <<83>>,
    AL, ABD_SPACE_AR, ABD, IBN_SPACE_AR, <<1605>> }

PrefixStrings == {Concat(t) : t \in SeqsUpTo(PrefixTokens, MaxPrefixTokens)}

InitPrefixes ==
  /\ ModuleLoaded
  /\ names = <<>>
  /\ op = "ready"
  /\ arg1 \in PrefixStrings
  /\ arg2 = <<>>
  /\ res = NoResult

CallNormalizeArabicPrefixes ==
  /\ op = "ready"
  /\ op' = "normalizeArabicPrefixes"
  /\ res' = normalizeArabicPrefixes(arg1)
  /\ UNCHANGED <<arg1, arg2, names, tables, lastIndex>>

CallNormalizeEnglishPrefixes ==
  /\ op = "ready"
  /\ op' = "normalizeEnglishPrefixes"
  /\ res' = normalizeEnglishPrefixes(arg1)
  /\ UNCHANGED <<arg1, arg2, names, tables, lastIndex>>

CallNormalizeArabicPrefixesJava ==
  /\ op = "ready"
  /\ op' = "J_normalizeArabicPrefixes"
  /\ res' \in J_normalizeArabicPrefixes(arg1)
  /\ UNCHANGED <<arg1, arg2, names, tables, lastIndex>>

CallNormalizeEnglishPrefixesJava ==
  /\ op = "ready"
  /\ op' = "J_normalizeEnglishPrefixes"
  /\ res' \in J_normalizeEnglishPrefixes(arg1)
  /\ UNCHANGED <<arg1, arg2, names, tables, lastIndex>>

NextPrefixes ==
  \/ CallNormalizeArabicPrefixes
  \/ CallNormalizeEnglishPrefixes
  \/ CallNormalizeArabicPrefixesJava
  \/ CallNormalizeEnglishPrefixesJava

SpecPrefixes == InitPrefixes /\ [][NextPrefixes]_vars

\* what entry k of the table makes of a string
RewriteBy(table, k, text) ==
  IF StartsWith(text, table[k][1])
  THEN table[k][2] \o Substring(text, Len(table[k][1]))
  ELSE text

\* the string after entries 1..k have been applied once each, in that order
RECURSIVE AfterEntries(_, _, _)
AfterEntries(table, k, text) ==
  IF k = 0 THEN text
  ELSE RewriteBy(table, k, AfterEntries(table, k - 1, text))

\* the entries that rewrite the string when their turn comes
RewritingEntries(table, text) ==
  {k \in 1..Len(table) :
     StartsWith(AfterEntries(table, k - 1, text), table[k][1])}

\* C22: each prefix normalizer applies every entry of its table exactly once,
\* in declaration order, each to the string as rewritten by the entries
\* before it; several entries can rewrite one input and no entry is applied a
\* second time.
C22_OnePass ==
  /\ op = "normalizeArabicPrefixes" =>
       res = AfterEntries(PREFIXES, Len(PREFIXES), arg1)
  /\ op = "normalizeEnglishPrefixes" =>
       res = AfterEntries(ENGLISH_PREFIXES, Len(ENGLISH_PREFIXES),
                          ToLowerCase(arg1))

\* 'abd-el-S': 'abd-' rewrites 'abd-el-s' to 'abdel-s', then 'abdel-' to
\* 'abdels'
C22_Witness ==
  /\ op = "normalizeEnglishPrefixes"
  /\ arg1 = ABD_HYPHEN \o EL_HYPHEN \o <<83>>
  /\ RewritingEntries(ENGLISH_PREFIXES, ToLowerCase(arg1)) = {5, 7}
  /\ res = <<97, 98, 100, 101, 108, 115>>

\* 'al-al-S': 'al-' is applied once and not retried on 'al-s'
C22_WitnessNotRetried ==
  /\ op = "normalizeEnglishPrefixes"
  /\ arg1 = AL_HYPHEN \o AL_HYPHEN \o <<83>>
  /\ res = AL_HYPHEN \o <<115>>

\* the canonical letter of each of the eight variant letters, any other
\* character itself
CanonicalLetter(c) ==
  CASE c \in {1570, 1571, 1573, 1649} -> 1575
    [] c = 1577 -> 1607
    [] c \in {1609, 1574} -> 1610
    [] c = 1572 -> 1608
    [] OTHER -> c

\* C23: normalizeArabicLetters (JavaScript and Java) keeps the length,
\* replaces each of the eight variant letters by its canonical letter at the
\* same position and leaves every other character alone, so its output holds
\* none of the eight variant letters.
C23_CharacterMap ==
  op \in {"normalizeArabicLetters", "J_normalizeArabicLetters"} =>
    /\ Len(res) = Len(arg1)
    /\ \A i \in 1..Len(arg1) : res[i] = CanonicalLetter(arg1[i])
    /\ \A i \in 1..Len(res) :
         res[i] \notin {1570, 1571, 1573, 1649, 1577, 1609, 1572, 1574}

C23_Witness ==
  /\ op = "normalizeArabicLetters"
  /\ arg1 = <<1571, 1571>>
  /\ res = <<1575, 1575>>
  /\ res = J_normalizeArabicLetters(arg1)

\* the characters of text other than the space
WithoutSpaces(text) == SelectSeq(text, LAMBDA c : c # 32)

\* C24: the whole-name code returned by normalizeArabicName is arabicSoundex
\* of the normalized string with its spaces removed, so the collapse of
\* equal digits runs across word boundaries, and each element of parts
\* carries arabicSoundex of its own token.
C24_WholeNameCode ==
  (op = "normalizeArabicName" /\ ~IsFalsy(arg1) /\ res # Thrown) =>
    /\ res.soundex = arabicSoundex(WithoutSpaces(res.normalized))
    /\ \A i \in 1..Len(res.parts) :
         res.parts[i].soundex = arabicSoundex(res.parts[i].original)

\* 'meem beh-noon': the whole-name code is computed over 'meem-beh-noon',
\* each part has the code of its own token
C24_Witness ==
  /\ op = "normalizeArabicName"
  /\ arg1 = <<1605, 32, 1576, 1606>>
  /\ res.normalized = <<1605, 32, 1576, 1606>>
  /\ res.soundex = <<1605, 49, 53, 48, 48, 48>>
  /\ Len(res.parts) = 2
  /\ res.parts[1].soundex = <<1605, 48, 48, 48, 48, 48>>
  /\ res.parts[2].soundex = <<1576, 53, 48, 48, 48, 48>>

\* 'meem meem': across the word boundary the second meem is in the group of
\* the first and emits nothing
C24_WitnessBlended ==
  /\ op = "normalizeArabicName"
  /\ arg1 = <<1605, 32, 1605>>
  /\ res.soundex = <<1605, 48, 48, 48, 48, 48>>
  /\ Len(res.parts) = 2
  /\ res.parts[2].soundex = <<1605, 48, 48, 48, 48, 48>>

\* the token strings of the parts of the current result
PartTokens ==
  IF op = "normalizeArabicName"
  THEN [i \in 1..Len(res.parts) |-> res.parts[i].original]
  ELSE res.parts

\* C25: parts is the tokenization of normalized: joined with single spaces
\* it gives normalized, no part is the empty token, and parts is empty
\* exactly when normalized is the empty string.
C25_PartsTokenize ==
  (op \in {"normalizeArabicName", "normalizeEnglishName"} /\ res # Thrown) =>
    /\ Join(PartTokens) = res.normalized
    /\ \A i \in 1..Len(PartTokens) : PartTokens[i] # <<>>
    /\ (PartTokens = <<>>) <=> (res.normalized = <<>>)

\* the normalized string of the current result, normalized again by the
\* branch that produced it
Renormalized ==
  IF op = "normalizeArabicName"
  THEN normalizeArabicName(res.normalized).normalized
  ELSE normalizeEnglishName(res.normalized).normalized

\* the normalized string of the current result still begins with a prefix
\* the table of its branch rewrites
StartsWithRewritingPrefix ==
  IF op = "normalizeArabicName"
  THEN \E k \in 1..Len(PREFIXES) :
         /\ PREFIXES[k][1] # PREFIXES[k][2]
         /\ StartsWith(res.normalized, PREFIXES[k][1])
  ELSE \E k \in 1..Len(ENGLISH_PREFIXES) :
         StartsWith(ToLowerCase(res.normalized), ENGLISH_PREFIXES[k][1])

\* C26: normalizing the normalized output again, with the same branch,
\* returns the same normalized string.
C26_Idempotent ==
  (op \in {"normalizeArabicName", "normalizeEnglishName"} /\ res # Thrown) =>
    Renormalized = res.normalized

\* C26 as amended: normalizing the normalized output again returns the same
\* string whenever that output does not begin with a prefix its table
\* rewrites.
C26_IdempotentAmended ==
  (/\ op \in {"normalizeArabicName", "normalizeEnglishName"}
   /\ res # Thrown
   /\ ~StartsWithRewritingPrefix) =>
    Renormalized = res.normalized

\* article, meem, fatha: normalized to meem, which normalizes to itself
C26_Witness ==
  /\ op = "normalizeArabicName"
  /\ arg1 = AL \o <<1605, 1614>>
  /\ res.normalized = <<1605>>
  /\ ~StartsWithRewritingPrefix
  /\ Renormalized = <<1605>>

\* 'al-S' of the Latin branch: 'S', which normalizes to itself
C26_WitnessLatin ==
  /\ op = "normalizeEnglishName"
  /\ arg1 = <<97, 108, 45, 83>>
  /\ res.normalized = <<83>>
  /\ ~StartsWithRewritingPrefix
  /\ Renormalized = <<83>>

\* C27: jaroWinkler (JavaScript and Java) returns 1 only for two equal
\* strings: the score of two different strings is strictly below 1.
C27_OneOnlyIfEqual ==
  (JWDone /\ res # Diverged /\ arg1 # arg2) => RLt(res, One)

\* 'abab' and 'baba': every character is matched, all four out of order
C27_Witness ==
  /\ JSDone
  /\ arg1 = <<97, 98, 97, 98>>
  /\ arg2 = <<98, 97, 98, 97>>
  /\ MatchesOfArgs = 4
  /\ TranspositionsOfArgs = 4
  /\ RLt(res, One)
  /\ RLt(Zero, res)

\* the keys of a Java prefix table the text starts with
MatchingKeys(table, text) ==
  {e[1] : e \in {x \in table : StartsWith(text, x[1])}}

\* no key of the table is the beginning of another key
PrefixFree(table) ==
  \A e1 \in table : \A e2 \in table :
    e1[1] # e2[1] => ~StartsWith(e1[1], e2[1])

\* C28: in the Java implementation no string starts with two different keys
\* of one prefix table (no key begins another key), so at most one entry
\* matches and normalizeArabicPrefixes and normalizeEnglishPrefixes return the
\* same string whatever the iteration order of the hash map.
C28_OrderIndependent ==
  /\ PrefixFree(J_ARABIC_PREFIXES)
  /\ PrefixFree(J_ENGLISH_PREFIXES)
  /\ op = "J_normalizeArabicPrefixes" =>
       /\ Cardinality(MatchingKeys(J_ARABIC_PREFIXES, arg1)) <= 1
       /\ J_normalizeArabicPrefixes(arg1) = {res}
  /\ op = "J_normalizeEnglishPrefixes" =>
       /\ Cardinality(MatchingKeys(J_ENGLISH_PREFIXES, ToLowerCase(arg1))) <= 1
       /\ J_normalizeEnglishPrefixes(arg1) = {res}

\* 'abd-el-S': only 'abd-' matches, the Java version stops there
C28_Witness ==
  /\ op = "J_normalizeEnglishPrefixes"
  /\ arg1 = ABD_HYPHEN \o EL_HYPHEN \o <<83>>
  /\ MatchingKeys(J_ENGLISH_PREFIXES, ToLowerCase(arg1)) = {ABD_HYPHEN}
  /\ res = <<97, 98, 100, 101, 108, 45, 115>>

(***************************************************************************)
(* normalizePatientNames.  An object is a record whose domain holds the    *)
(* properties it has; arg1 is the patient object the caller passed, as it  *)
(* is after the call, and res is the object returned.                      *)
(***************************************************************************)
\* obj[key], undefined when the object has no such property
Prop(obj, key) == IF key \in DOMAIN obj THEN obj[key] ELSE Null

\* a || b on string-or-undefined values
OrElse(a, b) == IF IsFalsy(a) THEN b ELSE a

\* name.given || []
GivenOf(name) == IF "given" \in DOMAIN name THEN name.given ELSE <<>>

\* /[U+0600-U+06FF]/.test(name.text || name.family || '')
EntryIsArabic(name) ==
  isArabic(OrElse(OrElse(Prop(name, "text"), Prop(name, "family")), <<>>))

\* name.text || [name.family, ...(name.given || [])].filter(Boolean).join(' ')
FullName(name) ==
  OrElse(Prop(name, "text"),
         Join(SelectSeq(<<Prop(name, "family")>> \o GivenOf(name),
                        LAMBDA part : ~IsFalsy(part))))

\* the callback of enriched.name.map: the annotated copy of the entry
NormalizedEntry(name) ==
  IF EntryIsArabic(name)
  THEN LET normResult == normalizeArabicName(FullName(name))
       IN  [_originalText |-> Prop(name, "text"),
            _normalized |-> normResult.normalized,
            _soundex |-> normResult.soundex] @@ name
  ELSE LET normResult == normalizeEnglishName(FullName(name))
       IN  [_originalText |-> Prop(name, "text"),
            _normalized |-> normResult.normalized] @@ name

\* the objects the callback pushes on enriched.extension for the entry
PushedFor(name) ==
  IF EntryIsArabic(name)
  THEN LET normResult == normalizeArabicName(FullName(name))
       IN  <<[url |-> "https://fhir.healthflow.eg/StructureDefinition/name-normalized-arabic",
              valueString |-> normResult.normalized],
             [url |-> "https://fhir.healthflow.eg/StructureDefinition/name-soundex-arabic",
              valueString |-> normResult.soundex]>>
  ELSE <<[url |-> "https://fhir.healthflow.eg/StructureDefinition/name-normalized-english",
          valueString |-> normalizeEnglishName(FullName(name)).normalized]>>

\* everything pushed while the entries from i on are mapped
RECURSIVE PushedFrom(_, _)
PushedFrom(entries, i) ==
  IF i > Len(entries) THEN <<>>
  ELSE PushedFor(entries[i]) \o PushedFrom(entries, i + 1)

\* lastIndex after the entries from i on are mapped
RECURSIVE lastIndexAfterEntries(_, _, _)
lastIndexAfterEntries(entries, i, before) ==
  IF i > Len(entries) THEN before
  ELSE lastIndexAfterEntries(entries, i + 1,
         IF EntryIsArabic(entries[i])
         THEN lastIndexAfterName(FullName(entries[i]), before)
         ELSE before)

\* the object returned: the spread copy with the mapped names and the
\* extension array, which is the patient's own array when it has one
normalizePatientNames(patient) ==
  IF "name" \notin DOMAIN patient THEN patient
  ELSE [name |-> [i \in 1..Len(patient.name) |->
                    NormalizedEntry(patient.name[i])],
        extension |-> (IF "extension" \in DOMAIN patient
                       THEN patient.extension ELSE <<>>)
                      \o PushedFrom(patient.name, 1)] @@ patient

\* the patient object after the call: "{ ...patient }" copies the
\* properties, not the arrays they refer to, so the pushes on
\* enriched.extension land in the patient's array when it has one
PatientAfter(patient) ==
  IF "name" \in DOMAIN patient /\ "extension" \in DOMAIN patient
  THEN [patient EXCEPT !.extension = @ \o PushedFrom(patient.name, 1)]
  ELSE patient

MEEM == <<1605>>
LATIN_S == <<83>>

PatientNameEntries ==
  {[text |-> t] : t \in {MEEM, LATIN_S}}
  \cup {[family |-> f, given |-> g] :
          f \in {MEEM, LATIN_S}, g \in {<<>>, <<MEEM>>, <<LATIN_S>>}}
  \cup {[given |-> <<MEEM>>]}

OTHER_EXTENSION == [url |-> "other", valueString |-> LATIN_S]

Patients ==
  {[resourceType |-> "Patient"],
   [resourceType |-> "Patient", extension |-> <<OTHER_EXTENSION>>]}
  \cup {[resourceType |-> "Patient", name |-> n] :
          n \in SeqsUpTo(PatientNameEntries, MaxPatientNames)}
  \cup {[resourceType |-> "Patient", name |-> n, extension |-> e] :
          n \in SeqsUpTo(PatientNameEntries, MaxPatientNames),
          e \in {<<>>, <<OTHER_EXTENSION>>}}

InitPatient ==
  /\ ModuleLoaded
  /\ names = <<>>
  /\ op = "ready"
  /\ arg1 \in Patients
  /\ arg2 = <<>>
  /\ res = NoResult

\* POST /normalize with a FHIR Patient resource
NormalizePatient ==
  /\ op = "ready"
  /\ op' = "normalizePatientNames"
  /\ res' = normalizePatientNames(arg1)
  /\ arg1' = PatientAfter(arg1)
  /\ lastIndex' = IF "name" \in DOMAIN arg1
                  THEN lastIndexAfterEntries(arg1.name, 1, lastIndex)
                  ELSE lastIndex
  /\ UNCHANGED <<arg2, names, tables>>

NextPatient == NormalizePatient

SpecPatient == InitPatient /\ [][NextPatient]_vars

\* C29: normalizePatientNames leaves the patient object it is given as it
\* was, name entries and extension array included; the annotations are on
\* the returned copy only.
C29_InputUnchanged ==
  [][op' = "normalizePatientNames" => arg1' = arg1]_vars

\* C30: a name entry goes through the Arabic branch (and gets a _soundex)
\* exactly when the full-name string that is normalized holds a character of
\* U+0600-U+06FF.
C30_BranchByFullName ==
  (op = "normalizePatientNames" /\ "name" \in DOMAIN arg1) =>
    \A i \in 1..Len(arg1.name) :
      ("_soundex" \in DOMAIN res.name[i]) <=> isArabic(FullName(arg1.name[i]))

====
